---- MODULE Spec2Model ----
(***************************************************************************)
(* Model of the Emulator class of src/processor_emulator.py: the parser    *)
(* (parse_program), the addressing resolver (get_value / set_value), the   *)
(* fetch-decode-execute cycle (execute_step) and the auto-run driver        *)
(* (run_auto).                                                              *)
(*                                                                          *)
(* Source text is modelled after whitespace handling: a source is the       *)
(* sequence of its lines (code.split('\n')), a line is the sequence of its  *)
(* whitespace-separated tokens (l.strip().split()), so a blank line is the  *)
(* empty sequence.  A token is a record [k, r, n] giving its lexical shape: *)
(*   k = "word"  a bare word r that is neither register nor integer         *)
(*   k = "reg"   a register name r                                          *)
(*   k = "ind"   "[" register r "]"                                         *)
(*   k = "dir"   "[" integer n "]"                                          *)
(*   k = "brk"   "[" junk "]"  (bracketed, neither register nor integer)    *)
(*   k = "imm"   integer literal n                                          *)
(*   k = "cmt"   a token starting with ";"                                  *)
(*   k = "empty" the empty string (only produced for a missing operand)     *)
(* Python integers are unbounded; the model explores values in             *)
(* -MaxVal..MaxVal.  Within that range nothing inside the try block of      *)
(* execute_step raises (int() failures are caught in get_value/set_value,   *)
(* division by zero is guarded, OverflowError of the true division needs a  *)
(* quotient beyond the float range), so the except branch at lines 286-289  *)
(* is not taken by any modelled instruction.                                *)
(***************************************************************************)
EXTENDS Integers, Sequences, FiniteSets, TLC

VARIABLES registers, flags, pc, ir, memory, program, executed_count,
          running, error_msg, code, op, arg, ret

vars == <<registers, flags, pc, ir, memory, program, executed_count,
          running, error_msg, code, op, arg, ret>>

(* ---------------------------- bounds ----------------------------------- *)
MaxVal == 6
MaxExec == 14
MaxSteps == 3
MaxDiv == 7

(* ------------------------- program constants --------------------------- *)
MemSize == 4096
DefaultMaxSteps == 10000

REG_NAMES == {"eax", "ebx", "ecx", "edx"}

OPCODES == {"mov", "add", "sub", "mul", "div", "jmp", "jz", "jnz", "js",
            "jns", "and", "or", "xor", "not", "cmp", "inc"}

(* ------------------------------ tokens --------------------------------- *)
W(s) == [k |-> "word", r |-> s, n |-> 0]
R(s) == [k |-> "reg", r |-> s, n |-> 0]
Ind(s) == [k |-> "ind", r |-> s, n |-> 0]
Dir(i) == [k |-> "dir", r |-> "", n |-> i]
Brk(s) == [k |-> "brk", r |-> s, n |-> 0]
Imm(i) == [k |-> "imm", r |-> "", n |-> i]
Cmt == [k |-> "cmt", r |-> ";", n |-> 0]
EmptyTok == [k |-> "empty", r |-> "", n |-> 0]

\* str.lower() on the spellings that occur in the modelled sources
Lower(s) ==
  CASE s = "MOV" -> "mov"
    [] s = "Inc" -> "inc"
    [] s = "FOO" -> "foo"
    [] OTHER -> s

\* the text of a token as parts[0].lower() sees it
OpcodeText(tok) ==
  IF tok.k \in {"word", "reg"} THEN Lower(tok.r) ELSE "#"

Instruction(opcode, operand1, operand2, raw) ==
  [opcode |-> opcode, operand1 |-> operand1, operand2 |-> operand2, raw |-> raw]

NoError == [kind |-> "none", line |-> 0, text |-> ""]
ParseError(n, t) == [kind |-> "parse", line |-> n, text |-> t]
LimitError == [kind |-> "limit", line |-> 0, text |-> ""]

(* --------------------------- machine record ---------------------------- *)
Self ==
  [registers |-> registers, flags |-> flags, pc |-> pc, ir |-> ir,
   memory |-> memory, program |-> program, executed_count |-> executed_count,
   running |-> running, error_msg |-> error_msg]

EmptyMemory == [a \in {} |-> 0]

reset ==
  [registers |-> [x \in REG_NAMES |-> 0],
   flags |-> [z |-> 0, s |-> 0],
   pc |-> 0,
   ir |-> <<>>,
   memory |-> EmptyMemory,
   program |-> <<>>,
   executed_count |-> 0,
   running |-> FALSE,
   error_msg |-> NoError]

(* ------------------------------ parser --------------------------------- *)
\* lines 79-80: strip every line, drop blank lines and comment lines
StripFilter(src) ==
  SelectSeq(src, LAMBDA l : l # <<>> /\ l[1].k # "cmt")

\* variant: a missing second operand repeats the first
RECURSIVE ParseLines_dup(_, _, _)
ParseLines_dup(lines, i, prog) ==
  IF i >= Len(lines)
  THEN [ok |-> TRUE, program |-> prog, error_msg |-> NoError]
  ELSE LET parts == lines[i + 1]
       IN IF parts = <<>>
          THEN ParseLines_dup(lines, i + 1, prog)
          ELSE LET opcode == OpcodeText(parts[1])
                   operand1 == IF Len(parts) > 1 THEN parts[2] ELSE EmptyTok
                   operand2 == IF Len(parts) > 2 THEN parts[3] ELSE operand1
               IN IF opcode \notin OPCODES
                  THEN [ok |-> FALSE, program |-> prog,
                        error_msg |-> ParseError(i + 1, opcode)]
                  ELSE ParseLines_dup(lines, i + 1,
                         Append(prog, Instruction(opcode, operand1, operand2, parts)))

\* lines 83-101: the loop over the filtered lines; i is enumerate's index
RECURSIVE ParseLines(_, _, _)
ParseLines(lines, i, prog) ==
  IF i >= Len(lines)
  THEN [ok |-> TRUE, program |-> prog, error_msg |-> NoError]
  ELSE LET parts == lines[i + 1]
       IN IF parts = <<>>
          THEN ParseLines(lines, i + 1, prog)
          ELSE LET opcode == OpcodeText(parts[1])
                   operand1 == IF Len(parts) > 1 THEN parts[2] ELSE EmptyTok
                   operand2 == IF Len(parts) > 2 THEN parts[3] ELSE EmptyTok
               IN IF opcode \notin OPCODES
                  THEN [ok |-> FALSE, program |-> prog,
                        error_msg |-> ParseError(i + 1, opcode)]
                  ELSE ParseLines(lines, i + 1,
                         Append(prog, Instruction(opcode, operand1, operand2, parts)))

\* variant: the load does not reset the machine first
parse_program_noreset(src) ==
  LET r == ParseLines(StripFilter(src), 0, <<>>)
  IN IF r.ok
     THEN [m |-> [Self EXCEPT !.program = r.program, !.running = TRUE, !.pc = 0],
           ret |-> "True"]
     ELSE [m |-> [Self EXCEPT !.program = r.program, !.error_msg = r.error_msg],
           ret |-> "False"]

\* lines 76-105: reset, parse, and on success start the machine
parse_program(src) ==
  LET r == ParseLines(StripFilter(src), 0, <<>>)
  IN IF r.ok
     THEN [m |-> [reset EXCEPT !.program = r.program, !.running = TRUE, !.pc = 0],
           ret |-> "True"]
     ELSE [m |-> [reset EXCEPT !.program = r.program, !.error_msg = r.error_msg],
           ret |-> "False"]

(* ------------------------- addressing resolver ------------------------- *)
\* variant: the upper bound of the address window is inclusive
set_memory_incl(m, addr, value) ==
  IF 0 <= addr /\ addr <= MemSize
  THEN [m EXCEPT !.memory =
          [a \in (DOMAIN m.memory) \cup {addr} |->
             IF a = addr THEN value ELSE m.memory[a]]]
  ELSE m

set_memory(m, addr, value) ==
  IF 0 <= addr /\ addr < MemSize
  THEN [m EXCEPT !.memory =
          [a \in (DOMAIN m.memory) \cup {addr} |->
             IF a = addr THEN value ELSE m.memory[a]]]
  ELSE m

get_memory(m, addr) ==
  IF addr \in DOMAIN m.memory THEN m.memory[addr] ELSE 0

\* variant: a bracketed register is read as the register itself
get_value_noind(m, operand) ==
  CASE operand.k = "ind" -> m.registers[operand.r]
    [] operand.k = "dir" -> get_memory(m, operand.n)
    [] operand.k = "brk" -> 0
    [] operand.k = "reg" -> m.registers[operand.r]
    [] operand.k = "imm" -> operand.n
    [] OTHER -> 0

get_value(m, operand) ==
  CASE operand.k = "ind" -> get_memory(m, m.registers[operand.r])
    [] operand.k = "dir" -> get_memory(m, operand.n)
    [] operand.k = "brk" -> 0
    [] operand.k = "reg" -> m.registers[operand.r]
    [] operand.k = "imm" -> operand.n
    [] OTHER -> 0

\* variant: a write through an integer literal goes to that memory address
set_value_immaddr(m, operand, value) ==
  CASE operand.k = "ind" -> set_memory(m, m.registers[operand.r], value)
    [] operand.k = "dir" -> set_memory(m, operand.n, value)
    [] operand.k = "brk" -> m
    [] operand.k = "reg" -> [m EXCEPT !.registers[operand.r] = value]
    [] operand.k = "imm" -> set_memory(m, operand.n, value)
    [] OTHER -> m

\* variant: a write through a bracketed register also overwrites the register
set_value_indreg(m, operand, value) ==
  CASE operand.k = "ind" ->
         [set_memory(m, m.registers[operand.r], value)
            EXCEPT !.registers[operand.r] = value]
    [] operand.k = "dir" -> set_memory(m, operand.n, value)
    [] operand.k = "brk" -> m
    [] operand.k = "reg" -> [m EXCEPT !.registers[operand.r] = value]
    [] OTHER -> m

set_value(m, operand, value) ==
  CASE operand.k = "ind" -> set_memory(m, m.registers[operand.r], value)
    [] operand.k = "dir" -> set_memory(m, operand.n, value)
    [] operand.k = "brk" -> m
    [] operand.k = "reg" -> [m EXCEPT !.registers[operand.r] = value]
    [] OTHER -> m

\* variant: the sign flag also raised for a zero result
update_flags_signle(m, result) ==
  [m EXCEPT !.flags = [z |-> IF result = 0 THEN 1 ELSE 0,
                       s |-> IF result <= 0 THEN 1 ELSE 0]]

update_flags(m, result) ==
  [m EXCEPT !.flags = [z |-> IF result = 0 THEN 1 ELSE 0,
                       s |-> IF result < 0 THEN 1 ELSE 0]]

(* --------------------------- integer helpers --------------------------- *)
Abs(x) == IF x < 0 THEN -x ELSE x

\* variant: floor division, as Python's // operator
TruncDiv_floor(a, b) ==
  IF (a < 0) = (b < 0) THEN Abs(a) \div Abs(b)
  ELSE -((Abs(a) + Abs(b) - 1) \div Abs(b))

\* int(a / b) for b # 0: the quotient truncated toward zero
TruncDiv(a, b) ==
  IF (a < 0) = (b < 0) THEN Abs(a) \div Abs(b) ELSE -(Abs(a) \div Abs(b))

\* Python's ~, &, |, ^ on unbounded two's-complement integers
BitNot(a) == -a - 1

RECURSIVE BitAnd(_, _)
BitAnd(a, b) ==
  IF a = 0 \/ b = 0 THEN 0
  ELSE IF a = -1 THEN b
  ELSE IF b = -1 THEN a
  ELSE 2 * BitAnd(a \div 2, b \div 2) + ((a % 2) * (b % 2))

RECURSIVE BitOr(_, _)
BitOr(a, b) ==
  IF a = 0 THEN b
  ELSE IF b = 0 THEN a
  ELSE IF a = -1 \/ b = -1 THEN -1
  ELSE 2 * BitOr(a \div 2, b \div 2) + (IF (a % 2) + (b % 2) > 0 THEN 1 ELSE 0)

RECURSIVE BitXor(_, _)
BitXor(a, b) ==
  IF a = 0 THEN b
  ELSE IF b = 0 THEN a
  ELSE IF a = -1 THEN BitNot(b)
  ELSE IF b = -1 THEN BitNot(a)
  ELSE 2 * BitXor(a \div 2, b \div 2) + (((a % 2) + (b % 2)) % 2)

(* ------------------------------ executor ------------------------------- *)
JUMPS == {"jmp", "jz", "jnz", "js", "jns"}

\* variant: js tests the zero flag
Taken_jszero(m, opcode) ==
  CASE opcode = "jmp" -> TRUE
    [] opcode = "jz" -> m.flags.z = 1
    [] opcode = "jnz" -> m.flags.z = 0
    [] opcode = "js" -> m.flags.z = 1
    [] opcode = "jns" -> m.flags.s = 0
    [] OTHER -> FALSE

\* lines 263-280: whether the jump opcode redirects pc in machine m
Taken(m, opcode) ==
  CASE opcode = "jmp" -> TRUE
    [] opcode = "jz" -> m.flags.z = 1
    [] opcode = "jnz" -> m.flags.z = 0
    [] opcode = "js" -> m.flags.s = 1
    [] opcode = "jns" -> m.flags.s = 0
    [] OTHER -> FALSE

\* variant: a division by zero stores 0 in the destination
Dispatch_divzero(m, inst) ==
  LET opcode == inst.opcode
      op1 == inst.operand1
      op2 == inst.operand2
      a == get_value(m, op1)
      b == get_value(m, op2)
  IN CASE opcode = "mov" -> set_value(m, op1, b)
       [] opcode = "add" -> update_flags(set_value(m, op1, a + b), a + b)
       [] opcode = "sub" -> update_flags(set_value(m, op1, a - b), a - b)
       [] opcode = "mul" -> set_value(m, op1, a * b)
       [] opcode = "div" -> set_value(m, op1, IF b # 0 THEN TruncDiv(a, b) ELSE 0)
       [] opcode = "and" -> set_value(m, op1, BitAnd(a, b))
       [] opcode = "or" -> set_value(m, op1, BitOr(a, b))
       [] opcode = "xor" -> set_value(m, op1, BitXor(a, b))
       [] opcode = "not" -> set_value(m, op1, BitNot(a))
       [] opcode = "inc" -> set_value(m, op1, a + 1)
       [] opcode = "cmp" -> update_flags(m, a - b)
       [] opcode \in JUMPS -> IF Taken(m, opcode) THEN [m EXCEPT !.pc = a - 1] ELSE m
       [] OTHER -> m

\* lines 215-280: the opcode dispatch, before pc += 1
Dispatch(m, inst) ==
  LET opcode == inst.opcode
      op1 == inst.operand1
      op2 == inst.operand2
      a == get_value(m, op1)
      b == get_value(m, op2)
  IN CASE opcode = "mov" -> set_value(m, op1, b)
       [] opcode = "add" -> update_flags(set_value(m, op1, a + b), a + b)
       [] opcode = "sub" -> update_flags(set_value(m, op1, a - b), a - b)
       [] opcode = "mul" -> set_value(m, op1, a * b)
       [] opcode = "div" -> IF b # 0 THEN set_value(m, op1, TruncDiv(a, b)) ELSE m
       [] opcode = "and" -> set_value(m, op1, BitAnd(a, b))
       [] opcode = "or" -> set_value(m, op1, BitOr(a, b))
       [] opcode = "xor" -> set_value(m, op1, BitXor(a, b))
       [] opcode = "not" -> set_value(m, op1, BitNot(a))
       [] opcode = "inc" -> set_value(m, op1, a + 1)
       [] opcode = "cmp" -> update_flags(m, a - b)
       [] opcode \in JUMPS -> IF Taken(m, opcode) THEN [m EXCEPT !.pc = a - 1] ELSE m
       [] OTHER -> m

\* line 207: program[pc] with Python's list indexing (negative indices count
\* from the end; an index below -len raises IndexError outside the try block)
IndexInRange(m) == m.pc >= -Len(m.program) /\ m.pc < Len(m.program)

Fetch(m) ==
  IF m.pc >= 0 THEN m.program[m.pc + 1] ELSE m.program[Len(m.program) + m.pc + 1]

\* variant: the execution counter is not advanced
execute_step_nocount(m) ==
  IF ~m.running \/ m.pc >= Len(m.program)
  THEN [m |-> [m EXCEPT !.running = FALSE], ret |-> "Halted"]
  ELSE IF ~IndexInRange(m)
  THEN [m |-> m, ret |-> "Raised"]
  ELSE LET inst == Fetch(m)
           m1 == [m EXCEPT !.ir = <<inst>>]
           m2 == Dispatch(m1, inst)
       IN [m |-> [m2 EXCEPT !.pc = m2.pc + 1], ret |-> "Continued"]

\* variant: the halting branch leaves running as it is
execute_step_keeprunning(m) ==
  IF ~m.running \/ m.pc >= Len(m.program)
  THEN [m |-> m, ret |-> "Halted"]
  ELSE IF ~IndexInRange(m)
  THEN [m |-> m, ret |-> "Raised"]
  ELSE LET inst == Fetch(m)
           m1 == [m EXCEPT !.ir = <<inst>>]
           m2 == Dispatch(m1, inst)
       IN [m |-> [m2 EXCEPT !.pc = m2.pc + 1,
                            !.executed_count = m2.executed_count + 1],
           ret |-> "Continued"]

\* variant: the halting branch clears the instruction register
execute_step_clearir(m) ==
  IF ~m.running \/ m.pc >= Len(m.program)
  THEN [m |-> [m EXCEPT !.running = FALSE, !.ir = <<>>], ret |-> "Halted"]
  ELSE IF ~IndexInRange(m)
  THEN [m |-> m, ret |-> "Raised"]
  ELSE LET inst == Fetch(m)
           m1 == [m EXCEPT !.ir = <<inst>>]
           m2 == Dispatch(m1, inst)
       IN [m |-> [m2 EXCEPT !.pc = m2.pc + 1,
                            !.executed_count = m2.executed_count + 1],
           ret |-> "Continued"]

\* lines 201-289.  ret: "Continued" is the return True of line 284, "Halted"
\* the return False of line 205, "Raised" the IndexError escaping line 207.
execute_step(m) ==
  IF ~m.running \/ m.pc >= Len(m.program)
  THEN [m |-> [m EXCEPT !.running = FALSE], ret |-> "Halted"]
  ELSE IF ~IndexInRange(m)
  THEN [m |-> m, ret |-> "Raised"]
  ELSE LET inst == Fetch(m)
           m1 == [m EXCEPT !.ir = <<inst>>]
           m2 == Dispatch(m1, inst)
       IN [m |-> [m2 EXCEPT !.pc = m2.pc + 1,
                            !.executed_count = m2.executed_count + 1],
           ret |-> "Continued"]

(* ------------------------------ auto-run ------------------------------- *)
\* variant: the loop stops one instruction before the end of the program
RECURSIVE RunLoop_short(_, _, _)
RunLoop_short(m, steps, max_steps) ==
  IF m.running /\ m.pc < Len(m.program) - 1 /\ steps < max_steps
  THEN LET r == execute_step(m)
       IN IF r.ret = "Raised"
          THEN [m |-> r.m, steps |-> steps, raised |-> TRUE]
          ELSE RunLoop_short(r.m, steps + 1, max_steps)
  ELSE [m |-> m, steps |-> steps, raised |-> FALSE]

\* lines 293-296: the while loop; an exception escaping execute_step ends it
RECURSIVE RunLoop(_, _, _)
RunLoop(m, steps, max_steps) ==
  IF m.running /\ m.pc < Len(m.program) /\ steps < max_steps
  THEN LET r == execute_step(m)
       IN IF r.ret = "Raised"
          THEN [m |-> r.m, steps |-> steps, raised |-> TRUE]
          ELSE RunLoop(r.m, steps + 1, max_steps)
  ELSE [m |-> m, steps |-> steps, raised |-> FALSE]

\* variant: hitting the cap stops the machine
run_auto_stop(m, max_steps) ==
  LET l == RunLoop(m, 0, max_steps)
  IN IF l.raised
     THEN [m |-> l.m, ret |-> "Raised"]
     ELSE IF l.steps >= max_steps
     THEN [m |-> [l.m EXCEPT !.error_msg = LimitError, !.running = FALSE],
           ret |-> "limitExceeded"]
     ELSE [m |-> l.m, ret |-> "completed"]

\* lines 291-302.  ret: "completed" is return True, "limitExceeded" return False
run_auto(m, max_steps) ==
  LET l == RunLoop(m, 0, max_steps)
  IN IF l.raised
     THEN [m |-> l.m, ret |-> "Raised"]
     ELSE IF l.steps >= max_steps
     THEN [m |-> [l.m EXCEPT !.error_msg = LimitError], ret |-> "limitExceeded"]
     ELSE [m |-> l.m, ret |-> "completed"]

(* --------------------------- source texts ------------------------------ *)
L1(o) == <<W(o)>>
L2(o, x) == <<W(o), x>>
L3(o, x, y) == <<W(o), x, y>>

\* arithmetic and logic on registers and immediates
SrcArith ==
  << L3("mov", R("eax"), Imm(3)),
     L3("mov", R("ebx"), Imm(-2)),
     L3("add", R("eax"), R("ebx")),
     L3("sub", R("eax"), Imm(1)),
     L3("mul", R("ebx"), R("ebx")),
     L3("div", R("ebx"), Imm(-3)),
     L3("cmp", R("eax"), R("ebx")),
     L2("inc", R("ecx")),
     L2("not", R("ecx")),
     L3("and", R("ecx"), Imm(3)),
     L3("or", R("edx"), Dir(0)),
     L3("xor", R("edx"), R("ebx")),
     L3("div", R("eax"), R("eax")) >>

\* memory operands: direct, register-indirect, out of range, bracketed junk
SrcMem ==
  << L3("mov", Dir(1), Imm(2)),
     L3("mov", R("ecx"), Dir(0)),
     L3("add", Ind("ecx"), Imm(1)),
     L3("mov", Dir(4096), Imm(5)),
     L3("mov", Dir(-1), Imm(5)),
     L3("sub", R("eax"), Ind("ecx")),
     L3("mov", Brk("x"), Imm(1)),
     L3("mov", R("edx"), Dir(4096)) >>

\* conditional jumps, taken and not taken
SrcJumps ==
  << L3("cmp", R("eax"), Dir(0)),
     L2("jz", Imm(3)),
     L2("js", Imm(5)),
     L2("jnz", Imm(6)),
     L2("inc", R("eax")),
     L2("jns", Imm(7)),
     L3("sub", R("ebx"), Imm(1)),
     L2("jns", Imm(0)),
     L2("jmp", R("edx")) >>

\* a program that jumps back to itself forever
SrcLoop == << L2("jmp", Imm(0)) >>

\* a counting loop
SrcCount == << L2("inc", R("eax")), L2("jmp", Imm(0)) >>

\* jumps to negative targets: inside and below -len(program)
SrcNeg == << L2("inc", R("eax")), L2("inc", R("ebx")), L2("jmp", Imm(-2)) >>
SrcBelow == << L2("inc", R("eax")), L2("jmp", Imm(-3)) >>

\* a jump past the end
SrcFar == << L2("jmp", Imm(7)), L2("inc", R("eax")) >>

\* one instruction
SrcOne == << L3("mov", R("eax"), Imm(1)) >>

\* blank lines, comment lines, upper-case opcodes, extra tokens
SrcComments ==
  << <<>>, <<Cmt, W("start")>>, L3("MOV", R("eax"), Imm(1)), <<>>,
     <<W("Inc"), R("eax"), Imm(0), W("extra")>>, <<Cmt>> >>

\* omitted operands, immediate destinations
SrcMissing ==
  << L1("jmp"), L2("add", R("eax")), L3("mov", Imm(5), R("eax")),
     L3("add", Imm(5), Imm(1)) >>

\* nothing at all
SrcEmpty == << <<>> >>

\* unknown opcodes
SrcBad1 == << L2("foo", R("eax")) >>
SrcBad2 == << L3("mov", R("eax"), Imm(1)), L1("FOO") >>
SrcBad3 ==
  << <<Cmt>>, <<>>, L3("mov", R("eax"), Imm(1)), <<Cmt, W("x")>>,
     L2("inc", R("eax")), <<>>, L1("bar"), L1("foo") >>
SrcBad4 == << <<R("eax"), Imm(1)>> >>

\* divisions with negative operands and a zero divisor
SrcDiv ==
  << L3("mov", R("eax"), Imm(-5)),
     L3("div", R("eax"), Imm(2)),
     L3("mov", R("ebx"), Imm(5)),
     L3("div", R("ebx"), Imm(-2)),
     L3("div", R("eax"), R("ecx")),
     L3("div", Dir(1), Dir(0)) >>

\* destinations that are not writable: integers and bare words
SrcImmDest ==
  << L3("mov", R("eax"), Imm(2)),
     L3("mov", Imm(5), R("eax")),
     L2("inc", Imm(1)),
     L2("not", W("x")),
     L3("add", W("EAX"), R("eax")),
     L3("sub", Imm(0), Imm(1)),
     L3("mul", Imm(1), Dir(0)) >>

\* source lines that omit operands
SrcOmit ==
  << L2("inc", R("eax")), L2("add", R("eax")), L1("not"), L1("jmp") >>

Sources ==
  {SrcDiv, SrcImmDest, SrcOmit, SrcArith, SrcMem, SrcJumps, SrcLoop, SrcCount, SrcNeg, SrcBelow, SrcFar,
   SrcOne, SrcComments, SrcMissing, SrcEmpty, SrcBad1, SrcBad2, SrcBad3, SrcBad4}

\* addresses and values poked through set_memory
PokeAddrs == {-1, 0, 1, MemSize}
PokeVals == {1, -2}

(* --------------------------- the state machine ------------------------- *)
Install(m) ==
  /\ registers' = m.registers
  /\ flags' = m.flags
  /\ pc' = m.pc
  /\ ir' = m.ir
  /\ memory' = m.memory
  /\ program' = m.program
  /\ executed_count' = m.executed_count
  /\ running' = m.running
  /\ error_msg' = m.error_msg

\* the explored part of the unbounded integer state
InBounds(m) ==
  /\ \A x \in REG_NAMES : Abs(m.registers[x]) <= MaxVal
  /\ \A a \in DOMAIN m.memory : Abs(m.memory[a]) <= MaxVal
  /\ m.executed_count <= MaxExec

\* Emulator.__init__ (lines 60-62)
Init ==
  /\ registers = reset.registers
  /\ flags = reset.flags
  /\ pc = reset.pc
  /\ ir = reset.ir
  /\ memory = reset.memory
  /\ program = reset.program
  /\ executed_count = reset.executed_count
  /\ running = reset.running
  /\ error_msg = reset.error_msg
  /\ code = <<>>
  /\ op = "init"
  /\ arg = <<>>
  /\ ret = "None"

Reset ==
  /\ Install(reset)
  /\ op' = "reset" /\ arg' = <<>> /\ ret' = "None"
  /\ UNCHANGED code

ParseProgram(src) ==
  LET r == parse_program(src)
  IN /\ Install(r.m)
     /\ code' = src
     /\ op' = "parse_program" /\ arg' = <<>> /\ ret' = r.ret

SetMemory(addr, value) ==
  /\ Install(set_memory(Self, addr, value))
  /\ op' = "set_memory" /\ arg' = <<addr, value>> /\ ret' = "None"
  /\ UNCHANGED code

ExecuteStep ==
  LET r == execute_step(Self)
  IN /\ InBounds(r.m)
     /\ Install(r.m)
     /\ op' = "execute_step" /\ arg' = <<>> /\ ret' = r.ret
     /\ UNCHANGED code

RunAuto(max_steps) ==
  LET r == run_auto(Self, max_steps)
  IN /\ InBounds(r.m)
     /\ Install(r.m)
     /\ op' = "run_auto" /\ arg' = <<max_steps>> /\ ret' = r.ret
     /\ UNCHANGED code

Next ==
  \/ Reset
  \/ \E src \in Sources : ParseProgram(src)
  \/ \E addr \in PokeAddrs, value \in PokeVals : SetMemory(addr, value)
  \/ ExecuteStep
  \/ \E max_steps \in 0..MaxSteps : RunAuto(max_steps)

Spec == Init /\ [][Next]_vars

TypeOK ==
  /\ running \in BOOLEAN
  /\ pc \in Int
  /\ flags.z \in {0, 1} /\ flags.s \in {0, 1}
  /\ Len(ir) <= 1
  /\ DOMAIN memory \subseteq 0..(MemSize - 1)

(* ---------------- the sum-of-array scenario (spec section 8) ------------ *)
SrcSum ==
  << L3("mov", R("ecx"), Dir(0)),
     L3("add", R("eax"), Ind("ecx")),
     L3("sub", R("ecx"), Imm(1)),
     L2("jnz", Imm(1)) >>

\* the cells poked after the load: memory[0] = 6, memory[1..6] = 100..105
SumCells == [a \in 0..6 |-> IF a = 0 THEN 6 ELSE 100 + a - 1]

SumInit ==
  LET r == parse_program(SrcSum)
  IN /\ registers = r.m.registers
     /\ flags = r.m.flags
     /\ pc = r.m.pc
     /\ ir = r.m.ir
     /\ memory = r.m.memory
     /\ program = r.m.program
     /\ executed_count = r.m.executed_count
     /\ running = r.m.running
     /\ error_msg = r.m.error_msg
     /\ code = SrcSum
     /\ op = "parse_program"
     /\ arg = <<>>
     /\ ret = r.ret

\* the pokes, in any order, each cell once, before execution starts
SumPoke(a) ==
  /\ a \notin DOMAIN memory
  /\ executed_count = 0
  /\ op # "run_auto"
  /\ SetMemory(a, SumCells[a])

\* single steps taken by hand once the data is in place
SumStep ==
  /\ DOMAIN memory = DOMAIN SumCells
  /\ op # "run_auto"
  /\ LET r == execute_step(Self)
     IN /\ Install(r.m)
        /\ op' = "execute_step" /\ arg' = <<>> /\ ret' = r.ret
        /\ UNCHANGED code

SumRun ==
  /\ DOMAIN memory = DOMAIN SumCells
  /\ op # "run_auto"
  /\ LET r == run_auto(Self, DefaultMaxSteps)
     IN /\ Install(r.m)
        /\ op' = "run_auto" /\ arg' = <<DefaultMaxSteps>> /\ ret' = r.ret
        /\ UNCHANGED code

SumNext ==
  \/ \E a \in DOMAIN SumCells : SumPoke(a)
  \/ SumStep
  \/ SumRun

SpecSum == SumInit /\ [][SumNext]_vars

(* ============================== claims ================================= *)
Stepped == op = "execute_step" /\ ret = "Continued"

\* the flag condition of a jump opcode, as the specification states it
JumpCondition(opcode, z, s) ==
  \/ opcode = "jmp"
  \/ opcode = "jz" /\ z = 1
  \/ opcode = "jnz" /\ z = 0
  \/ opcode = "js" /\ s = 1
  \/ opcode = "jns" /\ s = 0

\* C1: a step that executes an instruction increases executed_count by
\* exactly 1 and sets pc to the value read from the target for a taken jump,
\* and to old pc + 1 for a jump not taken and for every non-jump opcode.
C1_StepAdvances ==
  [][(op' = "execute_step" /\ ret' = "Continued") =>
       LET inst == ir'[1]
           taken == inst.opcode \in JUMPS
                    /\ JumpCondition(inst.opcode, flags.z, flags.s)
       IN /\ executed_count' = executed_count + 1
          /\ pc' = IF taken THEN get_value(Self, inst.operand1) ELSE pc + 1]_vars

\* a taken conditional jump: jz 3 at index 1 moved pc from 1 to 3
C1_Witness ==
  /\ Stepped /\ code = SrcJumps
  /\ ir[1].opcode = "jz" /\ pc = 3 /\ executed_count = 2

\* C2: add, sub and cmp set zero = (r = 0) and sign = (r < 0) from their
\* result r; every other opcode leaves both flags as they were.
C2_Flags ==
  [][(op' = "execute_step" /\ ret' = "Continued") =>
       LET inst == ir'[1]
           a == get_value(Self, inst.operand1)
           b == get_value(Self, inst.operand2)
           r == IF inst.opcode = "add" THEN a + b ELSE a - b
       IN IF inst.opcode \in {"add", "sub", "cmp"}
          THEN /\ (flags'.z = 1) = (r = 0) /\ flags'.z \in {0, 1}
               /\ (flags'.s = 1) = (r < 0) /\ flags'.s \in {0, 1}
          ELSE flags' = flags]_vars

\* sub eax 1 with result 0 has set zero and cleared sign
C2_Witness ==
  /\ Stepped /\ ir[1].opcode = "sub" /\ registers["eax"] = 0
  /\ code = SrcArith /\ flags = [z |-> 1, s |-> 0]

\* the lines of a source that hold an instruction
IsInstrLine(l) == l # <<>> /\ l[1].k # "cmt"

BadLines(src) ==
  {n \in 1..Len(src) : IsInstrLine(src[n]) /\ OpcodeText(src[n][1]) \notin OPCODES}

FirstBadLine(src) == CHOOSE n \in BadLines(src) : \A k \in BadLines(src) : n <= k

\* C3: a load that fails on an unknown opcode reports the 1-based number,
\* counted over all lines of the source text, of the first offending line.
C3_ErrorLine ==
  (op = "parse_program" /\ ret = "False") =>
     /\ error_msg.kind = "parse"
     /\ error_msg.line = FirstBadLine(code)

\* C4: after a load that fails the machine is at its reset values, with no
\* instruction of the rejected source installed.
C4_FailedLoadIsReset ==
  (op = "parse_program" /\ ret = "False") =>
     /\ \A x \in REG_NAMES : registers[x] = 0
     /\ flags = [z |-> 0, s |-> 0]
     /\ DOMAIN memory = {}
     /\ program = <<>>
     /\ pc = 0
     /\ ~running

RECURSIVE KeptLines(_)
KeptLines(src) ==
  IF src = <<>> THEN <<>>
  ELSE IF IsInstrLine(Head(src)) THEN <<Head(src)>> \o KeptLines(Tail(src))
  ELSE KeptLines(Tail(src))

\* C5: after a successful load all registers and flags are 0, memory is
\* empty, executed_count is 0, ir and error_msg are absent, pc = 0, running
\* is true and the program is the non-blank, non-comment lines in order.
C5_LoadResets ==
  (op = "parse_program" /\ ret = "True") =>
     /\ \A x \in REG_NAMES : registers[x] = 0
     /\ flags = [z |-> 0, s |-> 0]
     /\ DOMAIN memory = {}
     /\ executed_count = 0
     /\ ir = <<>>
     /\ error_msg = NoError
     /\ pc = 0
     /\ running
     /\ Len(program) = Len(KeptLines(code))
     /\ \A i \in 1..Len(program) : program[i].raw = KeptLines(code)[i]

\* a source with blank and comment lines loaded successfully
C5_Witness ==
  /\ op = "parse_program" /\ ret = "True" /\ code = SrcComments
  /\ Len(program) = 2 /\ program[2].opcode = "inc"

\* C6: a step made when running is false or pc >= len(program) returns
\* Halted, sets running to false and changes nothing else.
C6_HaltedStepFrame ==
  [][(op' = "execute_step" /\ (~running \/ pc >= Len(program))) =>
       /\ ret' = "Halted"
       /\ ~running'
       /\ UNCHANGED <<registers, flags, memory, program, pc, ir,
                      executed_count, error_msg>>]_vars

\* the step that finds pc at the end of an executed program
C6_Witness ==
  /\ op = "execute_step" /\ ret = "Halted" /\ ~running
  /\ Len(program) > 0 /\ pc >= Len(program) /\ executed_count > 0
  /\ ir # <<>>

\* C7: every call to step or runAuto ends with one of its outcomes; no
\* error escapes to the caller.
C7_NoEscape ==
  op \in {"execute_step", "run_auto"} =>
     ret \in {"Continued", "Halted", "Failed", "completed", "limitExceeded"}

\* C8: runAuto reports limitExceeded only when the machine is still running
\* with pc < len(program); when the program has reached its end or stopped,
\* it reports completed and records no limit error.
C8_LimitOnlyWhenCapped ==
  (op = "run_auto" /\ ret # "Raised") =>
     /\ ret = "limitExceeded" => (running /\ pc < Len(program))
     /\ (~running \/ pc >= Len(program)) =>
           (ret = "completed" /\ error_msg.kind # "limit")

\* machine m is not halted, and neither is it after each of its next k
\* steps, every one of which executes an instruction
RECURSIVE KeepsGoing(_, _)
KeepsGoing(m, k) ==
  /\ m.running /\ m.pc < Len(m.program)
  /\ \/ k = 0
     \/ /\ execute_step(m).ret = "Continued"
        /\ KeepsGoing(execute_step(m).m, k - 1)

\* C9: for a program that does not halt within max_steps steps, runAuto
\* returns limitExceeded after exactly max_steps instructions, and running
\* is still true.
C9_LimitAfterMaxSteps ==
  [][(op' = "run_auto" /\ KeepsGoing(Self, arg'[1])) =>
       /\ ret' = "limitExceeded"
       /\ executed_count' = executed_count + arg'[1]
       /\ running']_vars

\* the self-jump run to the cap
C9_Witness ==
  /\ op = "run_auto" /\ ret = "limitExceeded" /\ code = SrcLoop
  /\ arg = <<MaxSteps>> /\ executed_count >= MaxSteps /\ running /\ pc = 0

\* C10: with the sum program loaded and the seven cells poked, runAuto ends
\* with pc = 4, eax = 615 and ecx = 0.
C10_SumOfArray ==
  op = "run_auto" =>
     /\ ret = "completed"
     /\ pc = 4
     /\ registers["eax"] = 615
     /\ registers["ecx"] = 0

\* the run from the freshly loaded and poked machine: 1 + 6 * 3 instructions
C10_Witness ==
  /\ op = "run_auto" /\ executed_count = 19 /\ registers["eax"] = 615
  /\ memory = SumCells

\* n calls to step in a row, starting from machine m
RECURSIVE StepTimes(_, _)
StepTimes(m, n) ==
  IF n = 0 THEN m ELSE StepTimes(execute_step(m).m, n - 1)

\* C11: a runAuto that stops after N steps leaves the same machine state
\* (registers, flags, memory, pc, ir, running, error_msg) and the same
\* executed_count as N calls to step from the same starting state.
C11_AutoEqualsSteps ==
  [][(op' = "run_auto" /\ ret' # "Raised") =>
       LET n == executed_count' - executed_count
           byhand == StepTimes(Self, n)
       IN /\ registers' = byhand.registers
          /\ flags' = byhand.flags
          /\ memory' = byhand.memory
          /\ pc' = byhand.pc
          /\ ir' = byhand.ir
          /\ running' = byhand.running
          /\ error_msg' = byhand.error_msg
          /\ executed_count' = byhand.executed_count]_vars

\* the machine is about to execute the instruction Fetch(Self)
WillExecute == running /\ pc < Len(program) /\ IndexInRange(Self)

\* C12: a step executing div with a zero divisor changes no register, no
\* memory cell and no flag, records no error, keeps running, returns
\* Continued and advances pc and executed_count by 1.
C12_DivByZero ==
  [][(/\ op' = "execute_step"
      /\ WillExecute
      /\ Fetch(Self).opcode = "div"
      /\ get_value(Self, Fetch(Self).operand2) = 0) =>
       /\ UNCHANGED <<registers, memory, flags, error_msg>>
       /\ running'
       /\ ret' = "Continued"
       /\ pc' = pc + 1
       /\ executed_count' = executed_count + 1]_vars

\* div eax ecx executed with eax = -2 and ecx = 0
C12_Witness ==
  /\ Stepped /\ code = SrcDiv /\ pc = 5
  /\ ir[1].opcode = "div" /\ ir[1].operand2 = R("ecx")
  /\ registers["ecx"] = 0 /\ registers["eax"] = -2

\* C13: set_memory(a, v) followed by get_memory(a) gives v for a in
\* [0, 4096); for a outside, set_memory changes nothing and get_memory gives
\* 0; the memory never holds a value at an address outside [0, 4096).
C13_MemoryWindow ==
  [][/\ DOMAIN memory' \subseteq 0..(MemSize - 1)
     /\ \A a \in PokeAddrs \cup {-2, MemSize + 1} :
          (a < 0 \/ a >= MemSize) => get_memory(Self', a) = 0
     /\ op' = "set_memory" =>
          IF 0 <= arg'[1] /\ arg'[1] < MemSize
          THEN get_memory(Self', arg'[1]) = arg'[2]
          ELSE UNCHANGED <<registers, flags, pc, ir, memory, program,
                           executed_count, running, error_msg>>]_vars

\* a poke at address 4096 after pokes at 0 and 1 and a program's stores
C13_Witness ==
  /\ op = "set_memory" /\ arg[1] = MemSize
  /\ DOMAIN memory = {0, 1} /\ code = SrcMem /\ executed_count >= 5

\* operand tokens that are neither registers nor bracketed
ImmTokens == {Imm(5), Imm(0), Imm(-1), W("x"), W("EAX"), EmptyTok}

\* C14: writing through an immediate operand is a no-op, so a step whose
\* destination operand is an immediate changes no register and no memory cell.
C14_ImmediateWrite ==
  [][/\ \A t \in ImmTokens, x \in {-1, 0, 7} : set_value(Self, t, x) = Self
     /\ (op' = "execute_step" /\ WillExecute
         /\ Fetch(Self).operand1.k \in {"imm", "word", "empty"}) =>
          UNCHANGED <<registers, memory>>]_vars

\* mov 5 eax executed with eax = 2: nothing stored
C14_Witness ==
  /\ Stepped /\ code = SrcImmDest /\ pc = 2
  /\ ir[1].opcode = "mov" /\ ir[1].operand1 = Imm(5)
  /\ registers["eax"] = 2 /\ 5 \notin DOMAIN memory

C16_NegativePcFails ==
  [][(op' = "execute_step" /\ running /\ pc < 0) =>
       /\ ret' \in {"Failed", "Raised"}
       /\ UNCHANGED <<registers, flags, memory, ir, executed_count>>]_vars

\* C17: once execution has run off the end of the program (pc has reached
\* len(program) by a step or by a completed runAuto), running is false.
C17_HaltedAtEnd ==
  (/\ op \in {"execute_step", "run_auto"}
   /\ ret \in {"Continued", "completed"}
   /\ Len(program) > 0 /\ executed_count > 0
   /\ pc >= Len(program)) => ~running

(* ------------------- division over a range of operands ------------------ *)
SrcQuot ==
  << L3("mov", R("eax"), Dir(0)),
     L3("mov", R("ebx"), Dir(1)),
     L3("div", R("eax"), R("ebx")) >>

DivInit ==
  LET r == parse_program(SrcQuot)
  IN /\ registers = r.m.registers
     /\ flags = r.m.flags
     /\ pc = r.m.pc
     /\ ir = r.m.ir
     /\ memory = r.m.memory
     /\ program = r.m.program
     /\ executed_count = r.m.executed_count
     /\ running = r.m.running
     /\ error_msg = r.m.error_msg
     /\ code = SrcQuot
     /\ op = "parse_program"
     /\ arg = <<>>
     /\ ret = r.ret

\* dividend and divisor poked into cells 0 and 1 before execution starts
DivPoke(a, v) ==
  /\ executed_count = 0
  /\ op # "execute_step"
  /\ SetMemory(a, v)

DivStep ==
  LET r == execute_step(Self)
  IN /\ Install(r.m)
     /\ op' = "execute_step" /\ arg' = <<>> /\ ret' = r.ret
     /\ UNCHANGED code

DivNext ==
  \/ \E a \in {0, 1}, v \in (-MaxDiv)..MaxDiv : DivPoke(a, v)
  \/ DivStep

SpecDiv == DivInit /\ [][DivNext]_vars

\* sign(a) * sign(b) * floor(|a| / |b|)
Magnitude(x) == IF x < 0 THEN -x ELSE x

Sign(x) == IF x < 0 THEN -1 ELSE IF x > 0 THEN 1 ELSE 0

FloorQuot(x, y) ==
  CHOOSE q \in 0..x : q * y <= x /\ x < (q + 1) * y

\* C18: a step executing div d,s with b = read(s) # 0 writes to d the
\* quotient of a = read(d) by b truncated toward zero.
C18_DivTruncates ==
  [][(/\ op' = "execute_step"
      /\ WillExecute
      /\ Fetch(Self).opcode = "div"
      /\ Fetch(Self).operand1.k = "reg"
      /\ get_value(Self, Fetch(Self).operand2) # 0) =>
       LET a == get_value(Self, Fetch(Self).operand1)
           b == get_value(Self, Fetch(Self).operand2)
       IN registers'[Fetch(Self).operand1.r] =
            Sign(a) * Sign(b) * FloorQuot(Magnitude(a), Magnitude(b))]_vars

\* -7 div 2 gave -3
C18_Witness ==
  /\ Stepped /\ code = SrcQuot /\ ir[1].opcode = "div"
  /\ 0 \in DOMAIN memory /\ 1 \in DOMAIN memory
  /\ memory[0] = -7 /\ memory[1] = 2
  /\ registers["eax"] = -3 /\ registers["ebx"] = 2

\* C19: a conditional jump is taken exactly when its flag condition holds
\* (jz: zero = 1, jnz: zero = 0, js: sign = 1, jns: sign = 0); taken, it
\* sets pc to read(target), otherwise to old pc + 1; registers, memory and
\* flags are unchanged; the instruction a step fetches is the one at pc.
C19_ConditionalJump ==
  [][(op' = "execute_step" /\ WillExecute) =>
       /\ pc >= 0 => ir' = <<program[pc + 1]>>
       /\ Fetch(Self).opcode \in {"jz", "jnz", "js", "jns"} =>
            /\ ret' = "Continued"
            /\ pc' = IF JumpCondition(Fetch(Self).opcode, flags.z, flags.s)
                     THEN get_value(Self, Fetch(Self).operand1)
                     ELSE pc + 1
            /\ UNCHANGED <<registers, memory, flags>>]_vars

\* js 5 at index 2 taken with sign = 1 and zero = 0, after jz 3 fell through
C19_Witness ==
  /\ Stepped /\ code = SrcJumps /\ ir[1].opcode = "js"
  /\ flags = [z |-> 0, s |-> 1] /\ pc = 5 /\ executed_count = 3

\* C20: an omitted operand is the empty token, which reads as 0 and is not
\* writable; the step returns Continued without error: jmp with no operand
\* sets pc to 0, and add with one register operand leaves the register
\* unchanged and sets the flags from its value.
C20_OmittedOperand ==
  [][/\ \A i \in 1..Len(program) :
          /\ Len(program[i].raw) = 1 => program[i].operand1 = EmptyTok
          /\ Len(program[i].raw) <= 2 => program[i].operand2 = EmptyTok
     /\ get_value(Self, EmptyTok) = 0
     /\ set_value(Self, EmptyTok, 1) = Self
     /\ (op' = "execute_step" /\ WillExecute
         /\ Len(Fetch(Self).raw) <= 2) =>
          LET inst == Fetch(Self)
          IN /\ ret' = "Continued"
             /\ error_msg' = error_msg
             /\ (inst.opcode = "jmp" /\ Len(inst.raw) = 1) => pc' = 0
             /\ (inst.opcode = "add" /\ Len(inst.raw) = 2
                 /\ inst.operand1.k = "reg") =>
                  /\ registers' = registers
                  /\ flags'.z = (IF registers[inst.operand1.r] = 0 THEN 1 ELSE 0)
                  /\ flags'.s = (IF registers[inst.operand1.r] < 0 THEN 1 ELSE 0)]_vars

\* the bare jmp executed (pc back to 0) after add eax ran with eax = 1
C20_Witness ==
  /\ Stepped /\ code = SrcOmit /\ ir[1].opcode = "jmp"
  /\ ir[1].operand1 = EmptyTok /\ pc = 0 /\ executed_count = 4
  /\ registers["eax"] = 1 /\ flags = [z |-> 0, s |-> 0]

\* the memory cell operand tok designates in the current state, if any
CellOf(tok) ==
  IF tok.k = "ind" THEN {registers[tok.r]}
  ELSE IF tok.k = "dir" THEN {tok.n}
  ELSE {}

Cell(f, a) == IF a \in DOMAIN f THEN <<f[a]>> ELSE <<>>

\* C21: a step never modifies the program and changes at most one storage
\* location: for the writing opcodes only the register or in-range memory
\* cell designated by operand1; cmp and the jumps change no register and no
\* memory cell.
C21_StepFrame ==
  [][(op' = "execute_step" /\ WillExecute) =>
       LET inst == Fetch(Self)
           writes == inst.opcode \notin (JUMPS \cup {"cmp"})
           reg == IF writes /\ inst.operand1.k = "reg"
                  THEN {inst.operand1.r} ELSE {}
           cell == IF writes
                   THEN CellOf(inst.operand1) \cap (0..(MemSize - 1)) ELSE {}
       IN /\ program' = program
          /\ \A x \in REG_NAMES \ reg : registers'[x] = registers[x]
          /\ \A a \in ((DOMAIN memory) \cup (DOMAIN memory')) \ cell :
               Cell(memory', a) = Cell(memory, a)
          /\ Cardinality(reg) + Cardinality(cell) <= 1]_vars

\* add [ecx] 1 with ecx = 1 has stored 3 in cell 1 and nothing else
C21_Witness ==
  /\ Stepped /\ code = SrcMem /\ pc = 3
  /\ ir[1].opcode = "add" /\ ir[1].operand1 = Ind("ecx")
  /\ registers["ecx"] = 1 /\ 1 \in DOMAIN memory /\ memory[1] = 3

\* the loaded program contains no jump opcode
NoJumps == \A i \in 1..Len(program) : program[i].opcode \notin JUMPS

C23_CleanHalt ==
  [][(/\ op' = "execute_step" /\ ret' = "Halted"
      /\ running /\ Len(program) > 0 /\ pc >= Len(program)) =>
       error_msg' = NoError]_vars

====
